---------------------------- MODULE Spec2Model ----------------------------
(***************************************************************************)
(* Model of create_template.py: the script that builds the Harkness Helper *)
(* spreadsheet template (eight tabs) with openpyxl and saves it as         *)
(* Harkness_Helper_Template.xlsx.                                          *)
(*                                                                         *)
(* The script is one straight-line sequence of statements.  The model has  *)
(* one step per executed statement (one step per loop iteration), in the   *)
(* order of the source.  A worksheet is a record of its title, its rows of *)
(* cell values, the style attributes of its cells, its freeze pane, its    *)
(* auto-filter range and its column widths.                                *)
(*                                                                         *)
(* Text abstraction: a prompt text is the sequence of its pieces, cut at   *)
(* the {placeholder} tokens, so that "the text contains the token" is      *)
(* membership of the token in the sequence.  The em dash of the source is  *)
(* written "--" (the module is ASCII).                                     *)
(***************************************************************************)
EXTENDS Integers, Sequences, FiniteSets, TLC

VARIABLES
  run,      \* number of the current invocation of the script (1, 2, ...)
  env,      \* what the invocation finds outside the script (argument / environment value)
  pc,       \* the statement about to execute: [tab, at, i]
  wb,       \* the workbook under construction: the sequence of its worksheets
  disk,     \* the file at output_path: [state, by, content]
  stdout,   \* the lines printed by the current invocation
  exit,     \* "running", "0" (normal end) or "1" (unhandled exception)
  saves,    \* how many times the current invocation has called wb.save
  produced  \* run number -> [env, wb]: what that run found and what its successful save wrote

vars == <<run, env, pc, wb, disk, stdout, exit, saves, produced>>

\* Number of invocations of the script that the model follows.
MaxRuns == 2

\* Values the environment can hand to an invocation (none is read by the script).
EnvValues == {"", "teacher@example.org"}

----------------------------------------------------------------------------
(* Styles (lines 14-25).  A style value is named after the script variable *)
(* that holds it.                                                          *)

DefaultStyle ==
  [font |-> "default", fill |-> "default", alignment |-> "default", border |-> "default"]

header_profile ==
  [font |-> "header_font", fill |-> "header_fill",
   alignment |-> "header_align", border |-> "thin_border"]

\* Alignment(wrap_text=True, vertical="top") of the prompt_text cells (line 264).
wrap_alignment == "wrap_top"

----------------------------------------------------------------------------
(* openpyxl helpers used by the script.                                    *)

ColumnLetters ==
  << "A", "B", "C", "D", "E", "F", "G", "H", "I", "J", "K", "L", "M",
     "N", "O", "P", "Q", "R", "S", "T", "U", "V", "W", "X", "Y", "Z" >>

RECURSIVE get_column_letter(_)
get_column_letter(n) ==
  IF n <= 26 THEN ColumnLetters[n]
  ELSE get_column_letter((n - 1) \div 26) \o ColumnLetters[((n - 1) % 26) + 1]

\* The worksheet a new Workbook() holds, and the one create_sheet makes.
DefaultTitle == "Sheet"

NoCells == [c \in {} |-> DefaultStyle]
NoWidths == [l \in {} |-> 0]

NewSheet(title) ==
  [title |-> title, rows |-> << >>, style |-> NoCells,
   freeze_panes |-> "None", auto_filter |-> "None", widths |-> NoWidths]

\* openpyxl.Workbook(): one worksheet, titled "Sheet", which is wb.active.
Workbook == << NewSheet(DefaultTitle) >>

\* Variant: the new worksheet is inserted in front (create_sheet(title, 0)).
create_sheet_first(w, title) == << NewSheet(title) >> \o w

\* wb.create_sheet(title): the new worksheet goes to the end of the workbook.
create_sheet(w, title) == Append(w, NewSheet(title))

\* Variant: the row is inserted above the rows already there.
ws_append_top(w, k, row) == [w EXCEPT ![k].rows = << row >> \o @]

\* Variant: the loop of the Prompts section appends to ws_rep instead of ws_prompts.
ws_append_wrong_sheet(w, k, row) ==
  IF k = 7 /\ Len(w[k].rows) >= 1
    THEN [w EXCEPT ![6].rows = Append(@, row)]
    ELSE [w EXCEPT ![k].rows = Append(@, row)]

\* ws.append(row): the row goes below the last row of the worksheet.
ws_append(w, k, row) == [w EXCEPT ![k].rows = Append(@, row)]

\* ws.max_row
max_row(ws) == Len(ws.rows)

CellStyle(ws, c) == IF c \in DOMAIN ws.style THEN ws.style[c] ELSE DefaultStyle

SetStyle(w, k, c, s) == [w EXCEPT ![k].style = (c :> s) @@ @]

\* ws.column_dimensions[letter].width = width
set_width(w, k, letter, width) == [w EXCEPT ![k].widths = (letter :> width) @@ @]

----------------------------------------------------------------------------
(* The data of the script, tab by tab.                                     *)

settings_headers == << "setting_key", "setting_value" >>

\* Variant: the teacher_email default is taken from the environment.
settings_defaults_env ==
  << << "mode", "group" >>,
     << "distribute_email", "true" >>,
     << "distribute_canvas", "false" >>,
     << "grade_scale", "0-100" >>,
     << "teacher_email", env >>,
     << "teacher_name", "" >>,
     << "email_subject_template", "Harkness Discussion Report - {date}" >>,
     << "gemini_model", "gemini-2.0-flash" >>,
     << "elevenlabs_model", "scribe_v2" >>,
     << "canvas_course_id", "" >>,
     << "canvas_base_url", "" >>,
     << "canvas_item_type", "assignment" >> >>

settings_defaults ==
  << << "mode", "group" >>,
     << "distribute_email", "true" >>,
     << "distribute_canvas", "false" >>,
     << "grade_scale", "0-100" >>,
     << "teacher_email", "" >>,
     << "teacher_name", "" >>,
     << "email_subject_template", "Harkness Discussion Report - {date}" >>,
     << "gemini_model", "gemini-2.0-flash" >>,
     << "elevenlabs_model", "scribe_v2" >>,
     << "canvas_course_id", "" >>,
     << "canvas_base_url", "" >>,
     << "canvas_item_type", "assignment" >> >>

settings_widths == << << "A", 30 >>, << "B", 50 >> >>

disc_headers ==
  << "status", "next_step", "date", "section", "course",
     "grade", "approved", "group_feedback",
     "canvas_assignment_id", "canvas_item_type",
     "discussion_id", "audio_file_id", "error_message",
     "created_at", "updated_at" >>

disc_widths == << 12, 30, 12, 12, 14, 8, 10, 40, 18, 14, 18, 18, 30, 18, 18 >>

stu_headers == << "name", "email", "section", "course", "canvas_user_id", "student_id" >>

stu_widths == << 22, 28, 14, 14, 14, 18 >>

trans_headers ==
  << "discussion_id", "raw_transcript", "speaker_map", "named_transcript",
     "created_at", "updated_at" >>

trans_widths == << 18, 60, 30, 60, 18, 18 >>

sm_headers ==
  << "discussion_id", "speaker_label", "suggested_name", "student_name", "confirmed" >>

sm_widths == << 18, 14, 20, 20, 10 >>

rep_headers ==
  << "student_name", "grade", "approved", "sent", "feedback",
     "discussion_id", "transcript_contributions", "participation_summary",
     "student_id", "report_id", "created_at", "updated_at" >>

rep_widths == << 20, 8, 10, 8, 40, 18, 40, 30, 18, 18, 18, 18 >>

prompts_headers == << "prompt_name", "prompt_text" >>

\* Variant: the placeholder of the first prompt is misspelt.
SPEAKER_IDENTIFICATION_text_typo ==
  << "You are analyzing the beginning of a classroom Harkness discussion recording.\n\nStudents typically introduce themselves at the start. Listen for patterns like:\n- \"Hi, I'm [name]\"\n- \"My name is [name]\"\n- \"This is [name]\"\n- \"[Name] here\"\n- Other natural introductions\n\nAnalyze this transcript excerpt and identify which speaker label corresponds to which student name.\n\nIMPORTANT RULES:\n1. Only include speakers you can confidently identify from explicit introductions\n2. If a speaker cannot be identified, map them to \"?\" instead\n3. Be case-sensitive with names as they appear\n4. The teacher may also speak -- if identified, include them as \"Teacher\"\n\nReturn ONLY a valid JSON object mapping speaker labels to names.\nExample format: {\"Speaker 0\": \"Maria\", \"Speaker 1\": \"James\", \"Speaker 2\": \"Teacher\", \"Speaker 3\": \"?\"}\n\nTranscript excerpt:\n",
     "{transcipt}",
     "\n\nJSON mapping:" >>

SPEAKER_IDENTIFICATION_text ==
  << "You are analyzing the beginning of a classroom Harkness discussion recording.\n\nStudents typically introduce themselves at the start. Listen for patterns like:\n- \"Hi, I'm [name]\"\n- \"My name is [name]\"\n- \"This is [name]\"\n- \"[Name] here\"\n- Other natural introductions\n\nAnalyze this transcript excerpt and identify which speaker label corresponds to which student name.\n\nIMPORTANT RULES:\n1. Only include speakers you can confidently identify from explicit introductions\n2. If a speaker cannot be identified, map them to \"?\" instead\n3. Be case-sensitive with names as they appear\n4. The teacher may also speak -- if identified, include them as \"Teacher\"\n\nReturn ONLY a valid JSON object mapping speaker labels to names.\nExample format: {\"Speaker 0\": \"Maria\", \"Speaker 1\": \"James\", \"Speaker 2\": \"Teacher\", \"Speaker 3\": \"?\"}\n\nTranscript excerpt:\n",
     "{transcript}",
     "\n\nJSON mapping:" >>

GROUP_FEEDBACK_text ==
  << "You are a high school teacher analyzing a Harkness discussion. You will produce exactly two paragraphs.\n\n**PARAGRAPH 1 -- Discussion Summary** (Neutral Voice)\nWrite in a neutral, objective, third-person voice. Provide a detailed summary of the discussion's main topics and flow. Identify 2-3 \"defining moments\" -- key turning points, breakthrough ideas, or significant challenges that shaped the conversation.\n\n**PARAGRAPH 2 -- Evaluative Comment** (Teacher Voice)\nWrite in the teacher's voice, directed at the class (\"you\" plural, \"I\" for the teacher). The tone must be direct, informal, supportive, and clear. Follow this mandatory \"Critique Sandwich\" structure:\n\n1. **The Grade**: State the grade clearly and colloquially in the first sentence. (e.g., \"This was a strong discussion, earning a solid 8.5 out of 10.\", \"This was a decent but not great start... 7/10.\")\n2. **The Good**: Highlight 2-3 specific positive achievements. Credit specific students by name, linking them to their idea or contribution.\n3. **The Gap**: Identify the primary weakness or area for growth.\n4. **The Next Step**: Conclude with a single, clear, actionable goal for the next discussion.\n\n**Tone alignment with grade:**\n- High grade (9-10): Frame positives as \"excellent\" or \"deep\"; the gap is a \"final step\" to the next level.\n- Medium grade (7-8.5): Balanced (\"solid,\" \"decent start\") with a more significant gap to work on.\n- Lower grade (below 7): Honest but encouraging; clear gap with concrete next steps.\n\n**Important:**\n- If the teacher gave oral feedback during the discussion (often near the end -- look for phrases like \"my evaluation,\" \"my feedback,\" or the teacher summarizing), align your evaluation with their points.\n- Credit specific students by name for notable contributions.\n- If the teacher intervened to guide the discussion, acknowledge this (e.g., \"I had to provide the key synthesizing question\").\n\nGrade: ",
     "{grade}",
     "\n\nTranscript:\n",
     "{transcript}",
     "\n\nWrite the two paragraphs now (summary paragraph first, then evaluative comment):" >>

INDIVIDUAL_FEEDBACK_text ==
  << "You are a high school teacher providing personalized feedback to ",
     "{student_name}",
     " about their Harkness discussion participation. You will produce exactly two paragraphs.\n\n**PARAGRAPH 1 -- Contribution Summary** (Neutral Voice)\nWrite in a neutral, objective voice. Summarize what ",
     "{student_name}",
     " contributed to the discussion -- their main points, arguments, and how they engaged with other students' ideas. Note specific moments where they advanced or redirected the conversation.\n\n**PARAGRAPH 2 -- Evaluative Comment** (Teacher Voice)\nWrite in the teacher's voice, directed at the student (\"you\"). The tone must be direct, informal, supportive, and clear. Follow this \"Critique Sandwich\" structure:\n\n1. **The Grade**: State the grade clearly in the first sentence.\n2. **The Good**: Highlight 2-3 specific strengths from their participation, referencing actual points they made.\n3. **The Gap**: Identify their primary area for growth as a discussion participant.\n4. **The Next Step**: Conclude with a single, actionable goal for their next discussion.\n\n**Tone alignment with grade:**\n- High grade (9-10): \"Excellent\" contributions; the gap is a stretch goal.\n- Medium grade (7-8.5): \"Solid\" participation with clear room to grow.\n- Lower grade (below 7): Encouraging but honest about what's missing.\n\n**Important:**\n- If the teacher gave oral feedback during the discussion (often near the end -- look for phrases like \"my evaluation,\" \"my feedback,\" or the teacher summarizing), align your evaluation with their points.\n\nGrade: ",
     "{grade}",
     "\n\n",
     "{student_name}",
     "'s contributions:\n",
     "{contributions}",
     "\n\nFull discussion transcript (for context):\n",
     "{transcript}",
     "\n\nWrite the two paragraphs now (contribution summary first, then evaluative comment for ",
     "{student_name}",
     "):" >>

\* Variant: the comma after "GROUP_FEEDBACK" is missing, so name and text are one value.
prompts_missing_comma ==
  << << "SPEAKER_IDENTIFICATION", SPEAKER_IDENTIFICATION_text >>,
     << << "GROUP_FEEDBACK" >> \o GROUP_FEEDBACK_text >>,
     << "INDIVIDUAL_FEEDBACK", INDIVIDUAL_FEEDBACK_text >> >>

prompts ==
  << << "SPEAKER_IDENTIFICATION", SPEAKER_IDENTIFICATION_text >>,
     << "GROUP_FEEDBACK", GROUP_FEEDBACK_text >>,
     << "INDIVIDUAL_FEEDBACK", INDIVIDUAL_FEEDBACK_text >> >>

prompts_widths == << << "A", 28 >>, << "B", 100 >> >>

courses_headers ==
  << "course_name", "canvas_course_id", "canvas_base_url", "canvas_item_type" >>

courses_widths == << 24, 18, 36, 14 >>

output_path == "Harkness_Helper_Template.xlsx"

\* for i, w in enumerate(widths, 1): column_dimensions[get_column_letter(i)].width = w
enumerate_widths(widths) ==
  [i \in 1 .. Len(widths) |-> << get_column_letter(i), widths[i] >>]

----------------------------------------------------------------------------
(* The eight sections of the script.  Worksheet variable k of the script   *)
(* (ws_settings, ws_disc, ws_stu, ws_trans, ws_sm, ws_rep, ws_prompts,     *)
(* ws_courses) is the k-th worksheet of the workbook.                      *)

NumTabs == 8

\* The title each section gives its worksheet.
tab_title(k) ==
  CASE k = 1 -> "Settings"
    [] k = 2 -> "Discussions"
    [] k = 3 -> "Students"
    [] k = 4 -> "Transcripts"
    [] k = 5 -> "SpeakerMap"
    [] k = 6 -> "StudentReports"
    [] k = 7 -> "Prompts"
    [] k = 8 -> "Courses"

\* The header row each section appends first.
tab_headers(k) ==
  CASE k = 1 -> settings_headers
    [] k = 2 -> disc_headers
    [] k = 3 -> stu_headers
    [] k = 4 -> trans_headers
    [] k = 5 -> sm_headers
    [] k = 6 -> rep_headers
    [] k = 7 -> prompts_headers
    [] k = 8 -> courses_headers

\* The num_cols argument of each section's call of style_header.
tab_num_cols(k) ==
  CASE k = 1 -> 2
    [] k = 7 -> 2
    [] OTHER -> Len(tab_headers(k))

\* Variant: the Settings loop runs over settings_defaults[1:].
tab_default_rows_skip_first(k) ==
  CASE k = 1 -> Tail(settings_defaults)
    [] k = 7 -> prompts
    [] OTHER -> << >>

\* The rows each section appends below its header.
tab_default_rows(k) ==
  CASE k = 1 -> settings_defaults
    [] k = 7 -> prompts
    [] OTHER -> << >>

\* The column widths each section sets, in order.
tab_widths(k) ==
  CASE k = 1 -> settings_widths
    [] k = 2 -> enumerate_widths(disc_widths)
    [] k = 3 -> enumerate_widths(stu_widths)
    [] k = 4 -> enumerate_widths(trans_widths)
    [] k = 5 -> enumerate_widths(sm_widths)
    [] k = 6 -> enumerate_widths(rep_widths)
    [] k = 7 -> prompts_widths
    [] k = 8 -> enumerate_widths(courses_widths)

\* Only the Prompts section ends with the wrap-text loop.
tab_wraps(k) == k = 7

----------------------------------------------------------------------------
(* Control flow.                                                           *)

At(k, at, i) == [tab |-> k, at |-> at, i |-> i]

\* Variant: the save comes one section early.
AfterTab_early(k) == IF k < NumTabs - 1 THEN At(k + 1, "create", 1) ELSE At(k, "save", 1)

\* After the last statement of section k: the next section, or the save.
AfterTab(k) == IF k < NumTabs THEN At(k + 1, "create", 1) ELSE At(k, "save", 1)

\* After the widths of section k: the wrap loop (Prompts, rows 2..max_row) or the next section.
AfterWidths(w, k) ==
  IF tab_wraps(k) /\ max_row(w[k]) >= 2 THEN At(k, "wrap", 2) ELSE AfterTab(k)

\* After the default rows (or, with none, after style_header): the widths.
AfterRows(w, k) ==
  IF Len(tab_widths(k)) > 0 THEN At(k, "widths", 1) ELSE AfterWidths(w, k)

\* After style_header returns.
AfterStyleHeader(w, k) ==
  IF Len(tab_default_rows(k)) > 0 THEN At(k, "rows", 1) ELSE AfterRows(w, k)

\* Variant: range(1, num_cols).
style_header_cols_short(num_cols) == 1 .. (num_cols - 1)

\* The columns style_header(ws, num_cols) visits: range(1, num_cols + 1).
style_header_cols(num_cols) == 1 .. num_cols

\* f"A1:{get_column_letter(num_cols)}1"
auto_filter_ref(num_cols) == "A1:" \o get_column_letter(num_cols) \o "1"

Running == exit = "running"

Unchanged_outside == UNCHANGED <<run, env, disk, stdout, exit, saves, produced>>

----------------------------------------------------------------------------
(* The state when the interpreter has executed wb = openpyxl.Workbook().   *)

Init ==
  /\ run = 1
  /\ env \in EnvValues
  /\ pc = At(1, "title", 1)
  /\ wb = Workbook
  /\ disk = [state |-> "absent", by |-> 0, content |-> << >>]
  /\ stdout = << >>
  /\ exit = "running"
  /\ saves = 0
  /\ produced = [r \in {} |-> [env |-> "", wb |-> << >>]]

\* ws_settings = wb.active; ws_settings.title = "Settings"
SetTitle ==
  /\ Running /\ pc.at = "title"
  /\ wb' = [wb EXCEPT ![pc.tab].title = tab_title(pc.tab)]
  /\ pc' = At(pc.tab, "header", 1)
  /\ Unchanged_outside

\* ws = wb.create_sheet("<title>")
CreateSheet ==
  /\ Running /\ pc.at = "create"
  /\ wb' = create_sheet(wb, tab_title(pc.tab))
  /\ pc' = At(pc.tab, "header", 1)
  /\ Unchanged_outside

\* ws.append(headers)
AppendHeader ==
  /\ Running /\ pc.at = "header"
  /\ wb' = ws_append(wb, pc.tab, tab_headers(pc.tab))
  /\ pc' = IF 1 \in style_header_cols(tab_num_cols(pc.tab))
             THEN At(pc.tab, "style", 1)
             ELSE At(pc.tab, "freeze", 1)
  /\ Unchanged_outside

\* style_header, one iteration of the loop: font, fill, alignment and border of cell (1, col)
StyleHeaderCell ==
  /\ Running /\ pc.at = "style"
  /\ pc.i \in style_header_cols(tab_num_cols(pc.tab))
  /\ wb' = SetStyle(wb, pc.tab, << 1, pc.i >>, header_profile)
  /\ pc' = IF pc.i + 1 \in style_header_cols(tab_num_cols(pc.tab))
             THEN At(pc.tab, "style", pc.i + 1)
             ELSE At(pc.tab, "freeze", 1)
  /\ Unchanged_outside

\* style_header: ws.freeze_panes = "A2"
FreezePanes ==
  /\ Running /\ pc.at = "freeze"
  /\ wb' = [wb EXCEPT ![pc.tab].freeze_panes = "A2"]
  /\ pc' = At(pc.tab, "filter", 1)
  /\ Unchanged_outside

\* style_header: ws.auto_filter.ref = f"A1:{get_column_letter(num_cols)}1"
SetAutoFilter ==
  /\ Running /\ pc.at = "filter"
  /\ wb' = [wb EXCEPT ![pc.tab].auto_filter = auto_filter_ref(tab_num_cols(pc.tab))]
  /\ pc' = AfterStyleHeader(wb', pc.tab)
  /\ Unchanged_outside

\* for row in <defaults>: ws.append(row)   (one iteration)
AppendDefaultRow ==
  /\ Running /\ pc.at = "rows"
  /\ pc.i \in 1 .. Len(tab_default_rows(pc.tab))
  /\ wb' = ws_append(wb, pc.tab, tab_default_rows(pc.tab)[pc.i])
  /\ pc' = IF pc.i < Len(tab_default_rows(pc.tab))
             THEN At(pc.tab, "rows", pc.i + 1)
             ELSE AfterRows(wb', pc.tab)
  /\ Unchanged_outside

\* ws.column_dimensions[<letter>].width = <width>   (one assignment)
SetWidth ==
  /\ Running /\ pc.at = "widths"
  /\ pc.i \in 1 .. Len(tab_widths(pc.tab))
  /\ wb' = set_width(wb, pc.tab, tab_widths(pc.tab)[pc.i][1], tab_widths(pc.tab)[pc.i][2])
  /\ pc' = IF pc.i < Len(tab_widths(pc.tab))
             THEN At(pc.tab, "widths", pc.i + 1)
             ELSE AfterWidths(wb', pc.tab)
  /\ Unchanged_outside

\* for row in ws_prompts.iter_rows(min_row=2, min_col=2, max_col=2): cell.alignment = ...
WrapPromptText ==
  /\ Running /\ pc.at = "wrap"
  /\ pc.i \in 2 .. max_row(wb[pc.tab])
  /\ wb' = SetStyle(wb, pc.tab, << pc.i, 2 >>,
                    [CellStyle(wb[pc.tab], << pc.i, 2 >>) EXCEPT !.alignment = wrap_alignment])
  /\ pc' = IF pc.i < max_row(wb[pc.tab]) THEN At(pc.tab, "wrap", pc.i + 1) ELSE AfterTab(pc.tab)
  /\ Unchanged_outside

\* What the file at output_path holds.
Absent == [state |-> "absent", by |-> 0, content |-> << >>]

\* A save that broke off after the archive was opened for writing: a truncated, unreadable file.
Partial(r) == [state |-> "partial", by |-> r, content |-> << >>]

\* A save that ran to its end: the whole workbook w, written by run r.
Complete(r, w) == [state |-> "complete", by |-> r, content |-> w]

\* Variant: the exception of wb.save is caught and ignored, and the script goes on.
save_failure_swallowed == [pc |-> At(NumTabs, "print", 1), exit |-> "running"]

\* wb.save raises and nothing catches it: the traceback ends the process with status 1.
save_failure_outcome == [pc |-> At(NumTabs, "done", 1), exit |-> "1"]

\* wb.save returned: the next statement is the print.
save_success_outcome == [pc |-> At(NumTabs, "print", 1), exit |-> "running"]

\* wb.save(output_path) succeeds
SaveOk ==
  /\ Running /\ pc.at = "save"
  /\ saves' = saves + 1
  /\ disk' = Complete(run, wb)
  /\ produced' = (run :> [env |-> env, wb |-> wb]) @@ produced
  /\ pc' = save_success_outcome.pc
  /\ exit' = save_success_outcome.exit
  /\ UNCHANGED <<run, env, wb, stdout>>

\* wb.save(output_path) raises an I/O error: the path cannot be opened for writing (the
\* file system is left as it was) or the write breaks off (a truncated file is left).
SaveFail ==
  /\ Running /\ pc.at = "save"
  /\ saves' = saves + 1
  /\ disk' \in {disk, Partial(run)}
  /\ pc' = save_failure_outcome.pc
  /\ exit' = save_failure_outcome.exit
  /\ UNCHANGED <<run, env, wb, stdout, produced>>

\* The line print writes.
confirmation_line == "Template saved to: " \o output_path

\* print(f"Template saved to: {output_path}"), the last statement: the process ends with status 0.
PrintSaved ==
  /\ Running /\ pc.at = "print"
  /\ stdout' = Append(stdout, confirmation_line)
  /\ pc' = At(pc.tab, "done", 1)
  /\ exit' = "0"
  /\ UNCHANGED <<run, env, wb, disk, saves, produced>>

\* Between two invocations somebody removes the output file.
CleanOutputPath ==
  /\ pc.at = "done" /\ run < MaxRuns
  /\ disk.state # "absent"
  /\ disk' = Absent
  /\ UNCHANGED <<run, env, pc, wb, stdout, exit, saves, produced>>

\* python3 create_template.py, once more: a new process, a new Workbook().
StartRun ==
  /\ pc.at = "done" /\ run < MaxRuns
  /\ run' = run + 1
  /\ env' \in EnvValues
  /\ pc' = At(1, "title", 1)
  /\ wb' = Workbook
  /\ stdout' = << >>
  /\ exit' = "running"
  /\ saves' = 0
  /\ UNCHANGED <<disk, produced>>

\* One statement of the script.
Step ==
  \/ SetTitle
  \/ CreateSheet
  \/ AppendHeader
  \/ StyleHeaderCell
  \/ FreezePanes
  \/ SetAutoFilter
  \/ AppendDefaultRow
  \/ SetWidth
  \/ WrapPromptText
  \/ SaveOk
  \/ SaveFail
  \/ PrintSaved

Next == Step \/ CleanOutputPath \/ StartRun

Spec == Init /\ [][Next]_vars

\* The interpreter never stops between two statements: a running script takes its next step.
FairSpec == Spec /\ WF_vars(Step)

----------------------------------------------------------------------------
(* Properties.                                                             *)

\* The sheet names and their order, as the workbook is specified.
SheetNames ==
  << "Settings", "Discussions", "Students", "Transcripts",
     "SpeakerMap", "StudentReports", "Prompts", "Courses" >>

\* The header schema of each sheet, as the output artifact is specified.
SheetHeaders ==
  [ Settings |-> << "setting_key", "setting_value" >>,
    Discussions |->
      << "status", "next_step", "date", "section", "course", "grade", "approved",
         "group_feedback", "canvas_assignment_id", "canvas_item_type", "discussion_id",
         "audio_file_id", "error_message", "created_at", "updated_at" >>,
    Students |-> << "name", "email", "section", "course", "canvas_user_id", "student_id" >>,
    Transcripts |->
      << "discussion_id", "raw_transcript", "speaker_map", "named_transcript",
         "created_at", "updated_at" >>,
    SpeakerMap |->
      << "discussion_id", "speaker_label", "suggested_name", "student_name", "confirmed" >>,
    StudentReports |->
      << "student_name", "grade", "approved", "sent", "feedback", "discussion_id",
         "transcript_contributions", "participation_summary", "student_id", "report_id",
         "created_at", "updated_at" >>,
    Prompts |-> << "prompt_name", "prompt_text" >>,
    Courses |-> << "course_name", "canvas_course_id", "canvas_base_url", "canvas_item_type" >> ]

\* The twelve default settings, in order.
SettingsPairs ==
  << << "mode", "group" >>, << "distribute_email", "true" >>,
     << "distribute_canvas", "false" >>, << "grade_scale", "0-100" >>,
     << "teacher_email", "" >>, << "teacher_name", "" >>,
     << "email_subject_template", "Harkness Discussion Report - {date}" >>,
     << "gemini_model", "gemini-2.0-flash" >>, << "elevenlabs_model", "scribe_v2" >>,
     << "canvas_course_id", "" >>, << "canvas_base_url", "" >>,
     << "canvas_item_type", "assignment" >> >>

\* The placeholder tokens each prompt must contain.
RequiredTokens ==
  [ SPEAKER_IDENTIFICATION |-> {"{transcript}"},
    GROUP_FEEDBACK |-> {"{grade}", "{transcript}"},
    INDIVIDUAL_FEEDBACK |-> {"{student_name}", "{grade}", "{contributions}", "{transcript}"} ]

PromptNames == << "SPEAKER_IDENTIFICATION", "GROUP_FEEDBACK", "INDIVIDUAL_FEEDBACK" >>

Titles(w) == [k \in 1 .. Len(w) |-> w[k].title]

IsPrefix(s, t) == Len(s) <= Len(t) /\ \A i \in 1 .. Len(s) : s[i] = t[i]

NoDuplicates(s) == \A i, j \in 1 .. Len(s) : s[i] = s[j] => i = j

Contains(text, token) == \E i \in 1 .. Len(text) : text[i] = token

\* The sheet of workbook w titled name (titles are unique where this is used).
SheetNamed(w, name) == w[CHOOSE k \in 1 .. Len(w) : w[k].title = name]

HasSheet(w, name) == \E k \in 1 .. Len(w) : w[k].title = name

\* The run has built the whole workbook and stands at, or after, the save.
AtOrAfterSave == pc.at \in {"save", "print", "done"}

\* The workbooks a reader can get: the one about to be saved and the one in the file.
FinishedWorkbooks ==
  (IF AtOrAfterSave THEN {wb} ELSE {}) \cup
  (IF disk.state = "complete" THEN {disk.content} ELSE {})

\* The current run called wb.save and it raised.
SaveFailed == saves > 0 /\ run \notin DOMAIN produced

\* The current run called wb.save and it returned.
SaveSucceeded == saves > 0 /\ run \in DOMAIN produced

(* C1 as stated: at the save step the workbook has exactly the eight sheets *)
(* Settings, Discussions, Students, Transcripts, SpeakerMap,                *)
(* StudentReports, Prompts, Courses, once each and in that order, and at    *)
(* EVERY earlier point of the run the sheet list is a duplicate-free prefix *)
(* of that list.                                                            *)
C1_AlwaysPrefix ==
  /\ AtOrAfterSave => Titles(wb) = SheetNames
  /\ IsPrefix(Titles(wb), SheetNames) /\ NoDuplicates(Titles(wb))

(* C1 amended: at the save step the workbook has exactly the eight sheets,  *)
(* once each and in order; from the statement that titles the first sheet   *)
(* "Settings" on, the sheet list is a duplicate-free prefix of that list;   *)
(* before it, the workbook holds the single sheet of a new workbook, which  *)
(* is titled "Sheet".                                                       *)
C1_SheetList ==
  /\ \A w \in FinishedWorkbooks : Titles(w) = SheetNames
  /\ pc.at # "title" => IsPrefix(Titles(wb), SheetNames) /\ NoDuplicates(Titles(wb))
  /\ pc.at = "title" => Titles(wb) = << "Sheet" >>

C1_Witness == pc.at = "save" /\ Len(wb) = 8 /\ wb[8].title = "Courses"

(* C2: in every sheet of the saved workbook row 1 is the exact header list  *)
(* of that sheet (same names, count and order), and the header is the first *)
(* row written to a sheet: whenever a sheet has a row, its row 1 is its     *)
(* header list.                                                             *)
C2_Headers ==
  /\ \A w \in FinishedWorkbooks :
       \A k \in 1 .. Len(w) :
         /\ w[k].title \in DOMAIN SheetHeaders
         /\ max_row(w[k]) >= 1
         /\ w[k].rows[1] = SheetHeaders[w[k].title]
  /\ \A k \in 1 .. Len(wb) :
       max_row(wb[k]) >= 1 =>
         /\ wb[k].title \in DOMAIN SheetHeaders
         /\ wb[k].rows[1] = SheetHeaders[wb[k].title]

C2_Witness ==
  /\ disk.state = "complete"
  /\ Len(disk.content) = 8
  /\ max_row(disk.content[1]) > 1
  /\ disk.content[6].rows[1][7] = "transcript_contributions"

(* C3: in the saved workbook rows 2 to 13 of Settings are the twelve        *)
(* default pairs in order (row 2 mode/group, row 13                         *)
(* canvas_item_type/assignment); they are appended one per step directly    *)
(* below the header: at every point the rows of Settings are a prefix of    *)
(* header + defaults, and the i-th iteration of the loop finds exactly the  *)
(* header and the first i-1 defaults.                                       *)
C3_SettingsRows ==
  /\ \A w \in FinishedWorkbooks :
       /\ max_row(w[1]) = 13
       /\ SubSeq(w[1].rows, 2, 13) = SettingsPairs
       /\ w[1].rows[2] = << "mode", "group" >>
       /\ w[1].rows[13] = << "canvas_item_type", "assignment" >>
  /\ IsPrefix(wb[1].rows, << SheetHeaders.Settings >> \o SettingsPairs)
  /\ (pc.tab = 1 /\ pc.at = "rows") => max_row(wb[1]) = pc.i
  /\ (pc.tab > 1) => max_row(wb[1]) = 13

C3_Witness ==
  /\ disk.state = "complete"
  /\ disk.content[1].title = "Settings"
  /\ max_row(disk.content[1]) = 13

(* C4: in the saved workbook rows 2 to 4 of Prompts hold exactly the three  *)
(* prompts SPEAKER_IDENTIFICATION, GROUP_FEEDBACK, INDIVIDUAL_FEEDBACK in   *)
(* that order, and the text of each contains its placeholder tokens.        *)
C4_Prompts ==
  \A w \in FinishedWorkbooks :
    /\ HasSheet(w, "Prompts")
    /\ LET ws == SheetNamed(w, "Prompts")
       IN /\ max_row(ws) = 4
          /\ \A j \in 1 .. 3 :
               /\ Len(ws.rows[j + 1]) = 2
               /\ ws.rows[j + 1][1] = PromptNames[j]
               /\ \A token \in RequiredTokens[PromptNames[j]] :
                    Contains(ws.rows[j + 1][2], token)

C4_Witness ==
  /\ disk.state = "complete"
  /\ HasSheet(disk.content, "Prompts")
  /\ max_row(SheetNamed(disk.content, "Prompts")) = 4

CellValues(w) == [k \in 1 .. Len(w) |-> [title |-> w[k].title, rows |-> w[k].rows]]

(* C6: two runs that both succeed write the same sheets in the same order   *)
(* with the same cell values, whatever they found outside the script.       *)
C6_SameContent ==
  \A r1, r2 \in DOMAIN produced :
    CellValues(produced[r1].wb) = CellValues(produced[r2].wb)

C6_Witness ==
  /\ {1, 2} \subseteq DOMAIN produced
  /\ produced[1].env # produced[2].env

(* C7: at every point of the run, every default row already appended to a   *)
(* sheet has as many values as the sheet has header columns: two for each   *)
(* row of Settings and of Prompts.                                          *)
C7_RowWidth ==
  \A k \in 1 .. Len(wb) :
    \A r \in 2 .. max_row(wb[k]) :
      /\ wb[k].title \in DOMAIN SheetHeaders
      /\ Len(wb[k].rows[r]) = Len(SheetHeaders[wb[k].title])
      /\ wb[k].title \in {"Settings", "Prompts"} => Len(wb[k].rows[r]) = 2

C7_Witness ==
  /\ Len(wb) >= 7
  /\ max_row(wb[1]) = 13
  /\ max_row(wb[7]) = 4

HeaderOnlySheets ==
  {"Discussions", "Students", "Transcripts", "SpeakerMap", "StudentReports", "Courses"}

(* C8: the Discussions, Students, Transcripts, SpeakerMap, StudentReports   *)
(* and Courses sheets are header-only: in the saved workbook each has       *)
(* exactly one row, and at no point of the run does any of them hold a row  *)
(* or a styled cell below row 1.                                            *)
C8_HeaderOnly ==
  /\ \A w \in FinishedWorkbooks :
       \A name \in HeaderOnlySheets :
         HasSheet(w, name) /\ max_row(SheetNamed(w, name)) = 1
  /\ \A k \in 1 .. Len(wb) :
       wb[k].title \in HeaderOnlySheets =>
         /\ max_row(wb[k]) <= 1
         /\ \A c \in DOMAIN wb[k].style : c[1] = 1

C8_Witness ==
  /\ pc.at = "save"
  /\ \A name \in HeaderOnlySheets : HasSheet(wb, name)
  /\ max_row(SheetNamed(wb, "Prompts")) = 4
  /\ << 4, 2 >> \in DOMAIN SheetNamed(wb, "Prompts").style

\* The letter of the last header column of each sheet.
LastColumn ==
  [ Settings |-> "B", Discussions |-> "O", Students |-> "F", Transcripts |-> "F",
    SpeakerMap |-> "E", StudentReports |-> "L", Prompts |-> "B", Courses |-> "D" ]

\* Cell c of ws carries (part of) the header style profile.
HeaderStyled(ws, c) ==
  \/ ws.style[c].font = "header_font"
  \/ ws.style[c].fill = "header_fill"
  \/ ws.style[c].alignment = "header_align"
  \/ ws.style[c].border = "thin_border"

HeaderStyledCells(ws) == {c \in DOMAIN ws.style : HeaderStyled(ws, c)}

(* C9: in every finished sheet, with n its number of headers, the header    *)
(* style profile is on the cells of row 1 in columns 1..n and on no other   *)
(* cell, row 1 is frozen (A2), the auto-filter range is column 1 to column  *)
(* n of row 1, and a width is set for exactly the columns 1..n; while a     *)
(* sheet is built, no cell outside row 1, columns 1..n, gets the profile.   *)
C9_Formatting ==
  /\ \A w \in FinishedWorkbooks :
       \A k \in 1 .. Len(w) :
         /\ w[k].title \in DOMAIN SheetHeaders
         /\ LET n == Len(SheetHeaders[w[k].title])
            IN /\ HeaderStyledCells(w[k]) = {<< 1, j >> : j \in 1 .. n}
               /\ \A j \in 1 .. n : w[k].style[<< 1, j >>] = header_profile
               /\ w[k].freeze_panes = "A2"
               /\ w[k].auto_filter = "A1:" \o LastColumn[w[k].title] \o "1"
               /\ ColumnLetters[n] = LastColumn[w[k].title]
               /\ DOMAIN w[k].widths = {ColumnLetters[j] : j \in 1 .. n}
  /\ \A k \in 1 .. Len(wb) :
       wb[k].title \in DOMAIN SheetHeaders =>
         HeaderStyledCells(wb[k]) \subseteq
           {<< 1, j >> : j \in 1 .. Len(SheetHeaders[wb[k].title])}

C9_Witness ==
  /\ pc.at = "save"
  /\ Len(wb) = 8
  /\ wb[2].auto_filter = "A1:O1"
  /\ Cardinality(DOMAIN wb[2].widths) = 15
  /\ Cardinality(DOMAIN wb[7].style) = 5

\* Sheet ws is fully built: header, default rows, header style, freeze, filter, widths.
FullyBuilt(ws) ==
  /\ ws.title \in DOMAIN SheetHeaders
  /\ LET n == Len(SheetHeaders[ws.title])
     IN /\ max_row(ws) = (CASE ws.title = "Settings" -> 13
                            [] ws.title = "Prompts" -> 4
                            [] OTHER -> 1)
        /\ \A j \in 1 .. n : << 1, j >> \in DOMAIN ws.style
        /\ ws.freeze_panes # "None"
        /\ ws.auto_filter # "None"
        /\ Cardinality(DOMAIN ws.widths) = n

AllBuilt(w) == Titles(w) = SheetNames /\ \A k \in 1 .. Len(w) : FullyBuilt(w[k])

C10_Order ==
  /\ saves <= 1
  /\ (pc.at = "save" \/ saves > 0) => AllBuilt(wb)
  /\ pc.at \in {"print", "done"} <=> saves = 1
  /\ Len(stdout) <= 1
  /\ stdout # << >> =>
       /\ stdout = << "Template saved to: Harkness_Helper_Template.xlsx" >>
       /\ SaveSucceeded
  /\ SaveFailed => stdout = << >>
  /\ exit # "running" <=> pc.at = "done"
  /\ pc.at = "done" =>
       \/ exit = "0" /\ SaveSucceeded /\ Len(stdout) = 1
       \/ exit = "1" /\ SaveFailed /\ stdout = << >>

(* C10: every run ends, in success or in failure; the save is attempted     *)
(* once, after all eight sheets are fully built; the confirmation line      *)
(* with the output path is printed once, after the save succeeded; after a  *)
(* failed save it is never printed and the save is not retried.             *)
C10_Terminates == [] C10_Order /\ (exit = "running" ~> pc.at = "done")

C10_Witness ==
  /\ pc.at = "done" /\ exit = "0" /\ Len(stdout) = 1 /\ run = 2
  /\ run - 1 \notin DOMAIN produced

=============================================================================
